---- MODULE Spec2Model ----
(***************************************************************************)
(* Model of evaluation/models/models.py (FastEval): the model config       *)
(* cache and its global lock, the inference backend selector, the model    *)
(* factory, the reply driver and the backend switcher.                     *)
(***************************************************************************)
EXTENDS Integers, Sequences, FiniteSets, TLC

(***************************************************************************)
(* Bounds of the model.                                                    *)
(***************************************************************************)
\* number of threads that call into the config cache concurrently
NumThreads == 2
\* cap on the number of underlying fetches (AutoConfig.from_pretrained) in a run
MaxFetches == 4
\* longest list of conversations handed to compute_model_replies
MaxConversations == 3

Threads == 1..NumThreads
\* the single caller of the backend selector: the first thread
MainThread == CHOOSE t \in Threads : \A u \in Threads : t <= u

(***************************************************************************)
(* Model names: Python strings, modelled as sequences of characters so     *)
(* that the substring test of get_supported_inference_backends is computed.*)
(***************************************************************************)
N_starchat == <<"s","t","a","r","c","h","a","t">>
N_starchat_beta == <<"h","4","/","s","t","a","r","c","h","a","t","-","b">>
N_starcoder == <<"s","t","a","r","c","o","d","e","r">>
N_llama == <<"l","l","a","m","a">>

\* names the concurrent callers of fetch_model_config ask for
FetchNames == {N_llama, N_starcoder}
\* names the backend selector is asked about
SelectorNames == {N_starchat, N_starchat_beta, N_starcoder, N_llama}
ModelNames == FetchNames \cup SelectorNames

\* "starchat" in model_name: Python's substring test on str
Contains(needle, hay) ==
    \E i \in 0..(Len(hay) - Len(needle)) :
        SubSeq(hay, i + 1, i + Len(needle)) = needle

\* x in some_list
InList(x, list) == \E i \in 1..Len(list) : list[i] = x

(***************************************************************************)
(* The external registry (transformers.AutoConfig.from_pretrained): the    *)
(* model types it can declare for a name, and the errors it can raise.     *)
(***************************************************************************)
generally_supported_model_types ==
    <<"llama", "gpt_neox", "gpt_bigcode", "mpt",
      "RefinedWeb", "RefinedWebModel", "falcon">>

RegistryModelTypes ==
    {generally_supported_model_types[i] :
        i \in 1..Len(generally_supported_model_types)}
    \cup {"bert", "refinedweb"}

RegistryErrors == {"OSError", "ValueError"}

\* a config object: id is the identity of the Python object
NoConfig == [id |-> 0, name |-> <<>>, model_type |-> "none"]
NewConfig(id, name, model_type) ==
    [id |-> id, name |-> name, model_type |-> model_type]

\* what a call hands back to its caller
NoResult == [kind |-> "none"]
Return(v) == [kind |-> "return", value |-> v]
Raise(e) == [kind |-> "raise", exc |-> e]

VARIABLES
    fetched_model_configs,       \* the cache: model name -> config
    fetched_model_configs_lock,  \* TRUE when the threading.Lock is locked
    pc,                          \* per thread: the line it is about to execute
    call,                        \* per thread: the outermost function called
    model_name,                  \* per thread: the argument of the call
    model_config,                \* per thread: local of fetch_model_config
    supported_backends,          \* per thread: local of get_inference_backend
    result,                      \* per thread: what the finished call handed back
    warned,                      \* per thread: the call printed the TGI warning
    tgi_installed,               \* os.path.exists("text-generation-inference")
    fetch_calls,                 \* history: from_pretrained invocations per name
    fetch_raised,                \* history: what from_pretrained raised in the call
    next_object,                 \* identity of the next object the registry builds
    \* the backend switcher
    loaded,                      \* per backend module: it holds a loaded model
    sw_pc,                       \* "idle", "loop" or "done"
    sw_entry,                    \* the function called: switch or unload_model
    new_inference_backend,       \* argument of switch_inference_backend
    sw_next,                     \* position of the loop in unload_backend_fns
    unload_calls,                \* history: unload calls per backend in the call
    loaded_at_call,              \* history: loaded when the call began
    \* the model factory
    cm_pc,                       \* "ready" or "done"
    cm_model_type,               \* arguments of create_model
    cm_model_name,
    cm_model_args,
    cm_kwargs,
    cm_result,                   \* what create_model handed back
    constructed,                 \* history: the wrapper constructors invoked
    \* the reply driver
    rp_pc,                       \* "ready", "pool", "returned" or "raised"
    conversations,               \* argument of compute_model_replies
    item_result,                 \* per item: what process_fn handed to the pool
    reply_calls,                 \* history: per item, the calls of model.reply
    pool_invoked,                \* history: process_with_thread_pool was called
    finish_order,                \* history: the items in the order they finished
    rp_result                    \* what compute_model_replies handed back

cacheVars == <<fetched_model_configs, fetched_model_configs_lock, pc, call,
               model_name, model_config, supported_backends, result, warned,
               tgi_installed, fetch_calls, fetch_raised, next_object>>

switchVars == <<loaded, sw_pc, sw_entry, new_inference_backend, sw_next,
                unload_calls, loaded_at_call>>

factoryVars == <<cm_pc, cm_model_type, cm_model_name, cm_model_args, cm_kwargs,
                 cm_result, constructed>>

replyVars == <<rp_pc, conversations, item_result, reply_calls, pool_invoked,
               finish_order, rp_result>>

vars == <<cacheVars, switchVars, factoryVars, replyVars>>

CacheInit ==
    /\ fetched_model_configs = <<>>
    /\ fetched_model_configs_lock = FALSE
    /\ pc = [t \in Threads |-> "idle"]
    /\ call = [t \in Threads |-> "none"]
    /\ model_name = [t \in Threads |-> <<>>]
    /\ model_config = [t \in Threads |-> NoConfig]
    /\ supported_backends = [t \in Threads |-> <<>>]
    /\ result = [t \in Threads |-> NoResult]
    /\ warned = [t \in Threads |-> FALSE]
    /\ tgi_installed \in BOOLEAN
    /\ fetch_calls = [n \in ModelNames |-> 0]
    /\ fetch_raised = [t \in Threads |-> "none"]
    /\ next_object = 1

(***************************************************************************)
(* get_supported_inference_backends, after the starchat special case:      *)
(* lines 40-55.                                                            *)
(***************************************************************************)
SupportedBackendsOfType(model_type) ==
    IF InList(model_type, generally_supported_model_types)
    THEN <<"vllm", "tgi", "hf_transformers">>
    ELSE <<>>

\* seeded fault: the special case compares the whole name
IsStarchat_WholeName(name) == name = N_starchat

IsStarchat(name) == Contains(N_starchat, name)

(***************************************************************************)
(* get_inference_backend, lines 65-80, on the list of line 63.             *)
(***************************************************************************)
\* seeded fault: TGI is chosen without looking for its installation
SelectBackend_NoInstallCheck(supported, installed) ==
    IF InList("vllm", supported)
    THEN [res |-> Return("vllm"), warned |-> FALSE]
    ELSE IF InList("tgi", supported)
    THEN [res |-> Return("tgi"), warned |-> FALSE]
    ELSE IF InList("hf_transformers", supported)
    THEN [res |-> Return("hf_transformers"), warned |-> FALSE]
    ELSE [res |-> Raise("Exception"), warned |-> FALSE]

SelectBackend(supported, installed) ==
    IF InList("vllm", supported)
    THEN [res |-> Return("vllm"), warned |-> FALSE]
    ELSE IF InList("tgi", supported) /\ installed
    THEN [res |-> Return("tgi"), warned |-> FALSE]
    ELSE IF InList("hf_transformers", supported)
    THEN [res |-> Return("hf_transformers"),
          warned |-> InList("tgi", supported)]
    ELSE [res |-> Raise("Exception"), warned |-> InList("tgi", supported)]

\* a thread starts a call: its frame is fresh
Enter(t, fn, name, at) ==
    /\ pc[t] \in {"idle", "done"}
    /\ pc' = [pc EXCEPT ![t] = at]
    /\ call' = [call EXCEPT ![t] = fn]
    /\ model_name' = [model_name EXCEPT ![t] = name]
    /\ model_config' = [model_config EXCEPT ![t] = NoConfig]
    /\ fetch_raised' = [fetch_raised EXCEPT ![t] = "none"]

\* the caller's frames finish once fetch_model_config has returned config
Finish(t, config) ==
    LET list == SupportedBackendsOfType(config.model_type)
        sel == SelectBackend(list, tgi_installed)
    IN  /\ pc' = [pc EXCEPT ![t] = "done"]
        /\ CASE call[t] = "fetch_model_config" ->
                    /\ result' = [result EXCEPT ![t] = Return(config)]
                    /\ UNCHANGED <<supported_backends, warned>>
             [] call[t] = "get_supported_inference_backends" ->
                    /\ result' = [result EXCEPT ![t] = Return(list)]
                    /\ UNCHANGED <<supported_backends, warned>>
             [] call[t] = "get_inference_backend" ->
                    /\ supported_backends' =
                           [supported_backends EXCEPT ![t] = list]
                    /\ result' = [result EXCEPT ![t] = sel.res]
                    /\ warned' = [warned EXCEPT ![t] = sel.warned]

(***************************************************************************)
(* The calls.                                                              *)
(***************************************************************************)
Call_fetch_model_config(t, name) ==
    /\ UNCHANGED <<switchVars, factoryVars, replyVars>>
    /\ Enter(t, "fetch_model_config", name, "L11")
    /\ result' = [result EXCEPT ![t] = NoResult]
    /\ supported_backends' = [supported_backends EXCEPT ![t] = <<>>]
    /\ warned' = [warned EXCEPT ![t] = FALSE]
    /\ UNCHANGED <<fetched_model_configs, fetched_model_configs_lock,
                   tgi_installed, fetch_calls, next_object>>

Call_get_supported_inference_backends(t, name) ==
    /\ UNCHANGED <<switchVars, factoryVars, replyVars>>
    /\ IF IsStarchat(name)
       THEN /\ Enter(t, "get_supported_inference_backends", name, "done")
            /\ result' = [result EXCEPT
                            ![t] = Return(<<"tgi", "hf_transformers">>)]
       ELSE /\ Enter(t, "get_supported_inference_backends", name, "L11")
            /\ result' = [result EXCEPT ![t] = NoResult]
    /\ supported_backends' = [supported_backends EXCEPT ![t] = <<>>]
    /\ warned' = [warned EXCEPT ![t] = FALSE]
    /\ UNCHANGED <<fetched_model_configs, fetched_model_configs_lock,
                   tgi_installed, fetch_calls, next_object>>

Call_get_inference_backend(t, name) ==
    /\ UNCHANGED <<switchVars, factoryVars, replyVars>>
    /\ IF IsStarchat(name)
       THEN LET list == <<"tgi", "hf_transformers">>
                sel == SelectBackend(list, tgi_installed)
            IN  /\ Enter(t, "get_inference_backend", name, "done")
                /\ supported_backends' =
                       [supported_backends EXCEPT ![t] = list]
                /\ result' = [result EXCEPT ![t] = sel.res]
                /\ warned' = [warned EXCEPT ![t] = sel.warned]
       ELSE /\ Enter(t, "get_inference_backend", name, "L11")
            /\ supported_backends' = [supported_backends EXCEPT ![t] = <<>>]
            /\ result' = [result EXCEPT ![t] = NoResult]
            /\ warned' = [warned EXCEPT ![t] = FALSE]
    /\ UNCHANGED <<fetched_model_configs, fetched_model_configs_lock,
                   tgi_installed, fetch_calls, next_object>>

(***************************************************************************)
(* fetch_model_config, line by line.                                       *)
(***************************************************************************)
\* seeded fault: the lock is taken without waiting for it to be free
LockAcquire_NoWait(t) ==
    /\ UNCHANGED <<switchVars, factoryVars, replyVars>>
    /\ pc[t] = "L11"
    /\ fetched_model_configs_lock' = TRUE
    /\ pc' = [pc EXCEPT ![t] = "L13"]
    /\ UNCHANGED <<fetched_model_configs, call, model_name, model_config,
                   supported_backends, result, warned, tgi_installed,
                   fetch_calls, fetch_raised, next_object>>

\* line 11: fetched_model_configs_lock.acquire() blocks while it is locked
LockAcquire(t) ==
    /\ UNCHANGED <<switchVars, factoryVars, replyVars>>
    /\ pc[t] = "L11"
    /\ fetched_model_configs_lock = FALSE
    /\ fetched_model_configs_lock' = TRUE
    /\ pc' = [pc EXCEPT ![t] = "L13"]
    /\ UNCHANGED <<fetched_model_configs, call, model_name, model_config,
                   supported_backends, result, warned, tgi_installed,
                   fetch_calls, fetch_raised, next_object>>

\* seeded fault: the lookup never finds the entry
CacheLookup_AlwaysMiss(t) ==
    /\ UNCHANGED <<switchVars, factoryVars, replyVars>>
    /\ pc[t] = "L13"
    /\ pc' = [pc EXCEPT ![t] = "L20"]
    /\ UNCHANGED <<fetched_model_configs, fetched_model_configs_lock, call,
                   model_name, model_config, supported_backends, result,
                   warned, tgi_installed, fetch_calls, fetch_raised,
                   next_object>>

\* lines 13-14: the cache lookup
CacheLookup(t) ==
    /\ UNCHANGED <<switchVars, factoryVars, replyVars>>
    /\ pc[t] = "L13"
    /\ IF model_name[t] \in DOMAIN fetched_model_configs
       THEN /\ model_config' = [model_config EXCEPT
                                  ![t] = fetched_model_configs[model_name[t]]]
            /\ pc' = [pc EXCEPT ![t] = "L15"]
       ELSE /\ pc' = [pc EXCEPT ![t] = "L20"]
            /\ UNCHANGED model_config
    /\ UNCHANGED <<fetched_model_configs, fetched_model_configs_lock, call,
                   model_name, supported_backends, result, warned,
                   tgi_installed, fetch_calls, fetch_raised, next_object>>

\* lines 15-16: release and return the cached config
ReleaseHit(t) ==
    /\ UNCHANGED <<switchVars, factoryVars, replyVars>>
    /\ pc[t] = "L15"
    /\ fetched_model_configs_lock' = FALSE
    /\ Finish(t, model_config[t])
    /\ UNCHANGED <<fetched_model_configs, call, model_name, model_config,
                   tgi_installed, fetch_calls, fetch_raised, next_object>>

\* lines 18-20: the underlying fetch is entered
FetchBegin(t) ==
    /\ UNCHANGED <<switchVars, factoryVars, replyVars>>
    /\ pc[t] = "L20"
    /\ next_object <= MaxFetches
    /\ fetch_calls' = [fetch_calls EXCEPT ![model_name[t]] = @ + 1]
    /\ pc' = [pc EXCEPT ![t] = "L20_fetching"]
    /\ UNCHANGED <<fetched_model_configs, fetched_model_configs_lock, call,
                   model_name, model_config, supported_backends, result,
                   warned, tgi_installed, fetch_raised, next_object>>

\* line 20: the underlying fetch returns a new config object
FetchReturn(t) ==
    /\ UNCHANGED <<switchVars, factoryVars, replyVars>>
    /\ pc[t] = "L20_fetching"
    /\ \E mt \in RegistryModelTypes :
          model_config' = [model_config EXCEPT
                             ![t] = NewConfig(next_object, model_name[t], mt)]
    /\ next_object' = next_object + 1
    /\ pc' = [pc EXCEPT ![t] = "L23"]
    /\ UNCHANGED <<fetched_model_configs, fetched_model_configs_lock, call,
                   model_name, supported_backends, result, warned,
                   tgi_installed, fetch_calls, fetch_raised>>

\* seeded fault: the failure is cached as an entry without a config, and the caller
\* gets a different exception
FetchRaise_Swallow(t) ==
    /\ UNCHANGED <<switchVars, factoryVars, replyVars>>
    /\ pc[t] = "L20_fetching"
    /\ \E e \in RegistryErrors :
          fetch_raised' = [fetch_raised EXCEPT ![t] = e]
    /\ result' = [result EXCEPT ![t] = Raise("Exception")]
    /\ fetched_model_configs' =
          [n \in DOMAIN fetched_model_configs \cup {model_name[t]} |->
              IF n = model_name[t] THEN NoConfig
              ELSE fetched_model_configs[n]]
    /\ pc' = [pc EXCEPT ![t] = "done"]
    /\ UNCHANGED <<fetched_model_configs_lock, call, model_name, model_config,
                   supported_backends, warned, tgi_installed, fetch_calls,
                   next_object>>

\* line 20: the underlying fetch raises; no handler, no finally: every frame
\* of the call is left with the exception, the lock stays as it is
FetchRaise(t) ==
    /\ UNCHANGED <<switchVars, factoryVars, replyVars>>
    /\ pc[t] = "L20_fetching"
    /\ \E e \in RegistryErrors :
          /\ fetch_raised' = [fetch_raised EXCEPT ![t] = e]
          /\ result' = [result EXCEPT ![t] = Raise(e)]
    /\ pc' = [pc EXCEPT ![t] = "done"]
    /\ UNCHANGED <<fetched_model_configs, fetched_model_configs_lock, call,
                   model_name, model_config, supported_backends, warned,
                   tgi_installed, fetch_calls, next_object>>

\* line 23: fetched_model_configs[model_name] = model_config
CacheStore(t) ==
    /\ UNCHANGED <<switchVars, factoryVars, replyVars>>
    /\ pc[t] = "L23"
    /\ fetched_model_configs' =
          [n \in DOMAIN fetched_model_configs \cup {model_name[t]} |->
              IF n = model_name[t] THEN model_config[t]
              ELSE fetched_model_configs[n]]
    /\ pc' = [pc EXCEPT ![t] = "L25"]
    /\ UNCHANGED <<fetched_model_configs_lock, call, model_name, model_config,
                   supported_backends, result, warned, tgi_installed,
                   fetch_calls, fetch_raised, next_object>>

\* lines 25-27: release and return the fetched config
ReleaseMiss(t) ==
    /\ UNCHANGED <<switchVars, factoryVars, replyVars>>
    /\ pc[t] = "L25"
    /\ fetched_model_configs_lock' = FALSE
    /\ Finish(t, model_config[t])
    /\ UNCHANGED <<fetched_model_configs, call, model_name, model_config,
                   tgi_installed, fetch_calls, fetch_raised, next_object>>

fetch_model_config(t) ==
    \/ LockAcquire(t)
    \/ CacheLookup(t)
    \/ ReleaseHit(t)
    \/ FetchBegin(t)
    \/ FetchReturn(t)
    \/ FetchRaise(t)
    \/ CacheStore(t)
    \/ ReleaseMiss(t)

(***************************************************************************)
(* The backend switcher: switch_inference_backend and unload_model.        *)
(***************************************************************************)
\* the keys of unload_backend_fns, in the order the dict is iterated
unload_backend_fns == <<"hf_transformers", "vllm", "tgi", "fastchat">>

KnownBackends == {unload_backend_fns[i] : i \in 1..Len(unload_backend_fns)}

\* what callers pass: a known name, None (unload_model), another string
SwitchTargets == KnownBackends \cup {"None", "openai"}

SwitchIdle ==
    /\ loaded = [b \in KnownBackends |-> FALSE]
    /\ sw_pc = "idle"
    /\ sw_entry = "none"
    /\ new_inference_backend = "None"
    /\ sw_next = 1
    /\ unload_calls = [b \in KnownBackends |-> 0]
    /\ loaded_at_call = [b \in KnownBackends |-> FALSE]

\* a backend module loads a model (its first use by a model wrapper)
LoadBackend(b) ==
    /\ UNCHANGED <<cacheVars, factoryVars, replyVars>>
    /\ sw_pc \in {"idle", "done"}
    /\ ~loaded[b]
    /\ loaded' = [loaded EXCEPT ![b] = TRUE]
    /\ sw_pc' = "idle"
    /\ UNCHANGED <<sw_entry, new_inference_backend, sw_next, unload_calls,
                   loaded_at_call>>

\* <backend module>.unload_model(): the module holds no model afterwards
UnloadBackend(b) ==
    /\ loaded' = [loaded EXCEPT ![b] = FALSE]
    /\ unload_calls' = [unload_calls EXCEPT ![b] = @ + 1]

EnterSwitch(entry, target) ==
    /\ sw_pc \in {"idle", "done"}
    /\ sw_pc' = "loop"
    /\ sw_entry' = entry
    /\ new_inference_backend' = target
    /\ sw_next' = 1
    /\ unload_calls' = [b \in KnownBackends |-> 0]
    /\ loaded_at_call' = loaded
    /\ UNCHANGED loaded

\* lines 148-159
Call_switch_inference_backend(target) ==
    /\ UNCHANGED <<cacheVars, factoryVars, replyVars>>
    /\ EnterSwitch("switch_inference_backend", target)

\* lines 167-168
Call_unload_model ==
    /\ UNCHANGED <<cacheVars, factoryVars, replyVars>>
    /\ EnterSwitch("unload_model", "None")

\* seeded fault: the loop stops at the target instead of skipping it
SwitchLoopStep_Break ==
    /\ UNCHANGED <<cacheVars, factoryVars, replyVars>>
    /\ sw_pc = "loop"
    /\ LET name == unload_backend_fns[sw_next]
       IN  IF name = new_inference_backend
           THEN /\ sw_pc' = "done"
                /\ UNCHANGED <<loaded, unload_calls, sw_next>>
           ELSE /\ UnloadBackend(name)
                /\ sw_next' = sw_next + 1
                /\ sw_pc' = IF sw_next = Len(unload_backend_fns)
                            THEN "done" ELSE "loop"
    /\ UNCHANGED <<sw_entry, new_inference_backend, loaded_at_call>>

\* lines 161-164: one iteration of the loop; the function returns after the last
SwitchLoopStep ==
    /\ UNCHANGED <<cacheVars, factoryVars, replyVars>>
    /\ sw_pc = "loop"
    /\ LET name == unload_backend_fns[sw_next]
       IN  IF name = new_inference_backend
           THEN UNCHANGED <<loaded, unload_calls>>
           ELSE UnloadBackend(name)
    /\ sw_next' = sw_next + 1
    /\ sw_pc' = IF sw_next = Len(unload_backend_fns) THEN "done" ELSE "loop"
    /\ UNCHANGED <<sw_entry, new_inference_backend, loaded_at_call>>

(***************************************************************************)
(* The model factory: create_model.                                        *)
(***************************************************************************)
\* a Python dict with string keys: a function from its keys
EmptyDict == [k \in {} |-> "none"]

\* {**a, **b} for dicts without a common key
MergeDicts(a, b) ==
    [k \in (DOMAIN a) \cup (DOMAIN b) |-> IF k \in DOMAIN a THEN a[k] ELSE b[k]]

\* lines 102-118
model_classes ==
    [k \in {"debug", "openai", "fastchat", "open-assistant", "guanaco",
            "falcon-instruct", "alpaca-without-prefix", "alpaca-with-prefix",
            "chatml", "starchat", "llama2-chat", "stable-beluga", "dolphin",
            "openchat-llama2-v1", "wizard-lm"} |->
        CASE k = "debug" -> "Debug"
          [] k = "openai" -> "OpenAI"
          [] k = "fastchat" -> "Fastchat"
          [] k = "open-assistant" -> "OpenAssistant"
          [] k = "guanaco" -> "Guanaco"
          [] k = "falcon-instruct" -> "FalconInstruct"
          [] k = "alpaca-without-prefix" -> "AlpacaWithoutPrefix"
          [] k = "alpaca-with-prefix" -> "AlpacaWithPrefix"
          [] k = "chatml" -> "ChatML"
          [] k = "starchat" -> "Starchat"
          [] k = "llama2-chat" -> "Llama2Chat"
          [] k = "stable-beluga" -> "StableBeluga"
          [] k = "dolphin" -> "Dolphin"
          [] k = "openchat-llama2-v1" -> "OpenchatLlama2V1"
          [] k = "wizard-lm" -> "WizardLM"]

\* the type strings callers pass: the keys, and strings that are no key
FactoryTypes == (DOMAIN model_classes) \cup {"unknown-type", "ChatML", "dolphin "}
FactoryNames == {N_llama, N_starchat}
FactoryModelArgs ==
    {EmptyDict, [tokenizer |-> "tk"], [dtype |-> "float16"]}
FactoryKwargs ==
    {EmptyDict, [max_new_tokens |-> "512"], [dtype |-> "bfloat16"],
     [dtype |-> "bfloat16", max_new_tokens |-> "512"]}

\* an invocation of a wrapper class: model_class(positional, **keywords)
Invocation(class, positional, keywords) ==
    [class |-> class, positional |-> positional, keywords |-> keywords]

FactoryIdle ==
    /\ cm_pc = "idle"
    /\ cm_model_type = "none"
    /\ cm_model_name = <<>>
    /\ cm_model_args = EmptyDict
    /\ cm_kwargs = EmptyDict
    /\ cm_result = NoResult
    /\ constructed = <<>>

FactoryInit ==
    /\ cm_pc = "ready"
    /\ cm_model_type \in FactoryTypes
    /\ cm_model_name \in FactoryNames
    /\ cm_model_args \in FactoryModelArgs
    /\ cm_kwargs \in FactoryKwargs
    /\ cm_result = NoResult
    /\ constructed = <<>>

\* seeded fault: an unknown type falls back to the first class of the table
create_model_DefaultClass(model_type, name, model_args, kwargs) ==
    LET class == IF model_type \in DOMAIN model_classes
                 THEN model_classes[model_type] ELSE "Debug"
    IN  IF (DOMAIN model_args) \cap (DOMAIN kwargs) # {}
        THEN [res |-> Raise("TypeError"), made |-> <<>>]
        ELSE LET inv == Invocation(class, <<name>>,
                                   MergeDicts(model_args, kwargs))
             IN  [res |-> Return(inv), made |-> <<inv>>]

\* lines 120-125; a call with the same keyword from both dicts raises TypeError
\* before the class is invoked
create_model(model_type, name, model_args, kwargs) ==
    IF model_type \notin DOMAIN model_classes
    THEN [res |-> Raise("Exception"), made |-> <<>>]
    ELSE IF (DOMAIN model_args) \cap (DOMAIN kwargs) # {}
    THEN [res |-> Raise("TypeError"), made |-> <<>>]
    ELSE LET inv == Invocation(model_classes[model_type], <<name>>,
                               MergeDicts(model_args, kwargs))
         IN  [res |-> Return(inv), made |-> <<inv>>]

Call_create_model ==
    /\ UNCHANGED <<cacheVars, switchVars, replyVars>>
    /\ cm_pc = "ready"
    /\ LET out == create_model(cm_model_type, cm_model_name, cm_model_args,
                               cm_kwargs)
       IN  /\ cm_result' = out.res
           /\ constructed' = constructed \o out.made
    /\ cm_pc' = "done"
    /\ UNCHANGED <<cm_model_type, cm_model_name, cm_model_args, cm_kwargs>>

(***************************************************************************)
(* The reply driver: compute_model_replies.                                *)
(***************************************************************************)
\* a conversation: a Python object of some type; a list or tuple holds turns,
\* a dict holds entries
Conversation(shape, turns, entries) ==
    [shape |-> shape, turns |-> turns, entries |-> entries]

ConversationValues ==
    {Conversation("list", <<"u:hi">>, EmptyDict),
     Conversation("list", <<"u:hi", "a:yo", "u:why">>, EmptyDict),
     Conversation("dict", <<>>, [conversation |-> "c1"]),
     Conversation("dict", <<>>, [conversation |-> "c2", temperature |-> "0"]),
     Conversation("dict", <<>>, [conversation |-> "c1", stop_event |-> "own"]),
     Conversation("tuple", <<"u:hi">>, EmptyDict),
     Conversation("NoneType", <<>>, EmptyDict)}

\* the stop signal the pool creates and hands to every process_fn call
StopEvent == "stop_event"

\* a call of model.reply: reply(*positional, **keywords)
ReplyCall(positional, keywords) ==
    [positional |-> positional, keywords |-> keywords]

\* model.reply: the reply is a value that tells which call it answers
ModelReply(c) == [reply_to |-> c]

\* seeded fault: a dict is passed like a list, as the positional argument
compute_reply_DictPositional(conversation, stop_event) ==
    IF conversation.shape \in {"list", "dict"}
    THEN LET c == ReplyCall(<<conversation>>, [stop_event |-> stop_event])
         IN  [res |-> Return(ModelReply(c)), calls |-> <<c>>]
    ELSE [res |-> Raise("RuntimeError"), calls |-> <<>>]

\* seeded fault: whatever is not a dict is passed like a list
compute_reply_ElseList(conversation, stop_event) ==
    IF conversation.shape = "dict"
    THEN IF "stop_event" \in DOMAIN conversation.entries
         THEN [res |-> Raise("TypeError"), calls |-> <<>>]
         ELSE LET c == ReplyCall(<<>>, MergeDicts(conversation.entries,
                                        [stop_event |-> stop_event]))
              IN  [res |-> Return(ModelReply(c)), calls |-> <<c>>]
    ELSE LET c == ReplyCall(<<conversation>>, [stop_event |-> stop_event])
         IN  [res |-> Return(ModelReply(c)), calls |-> <<c>>]

\* lines 132-137. A dict that has the key stop_event gives the keyword twice:
\* TypeError at the call, model.reply is not entered. The bare raise of line
\* 137 has no exception to re-raise: RuntimeError.
compute_reply(conversation, stop_event) ==
    IF conversation.shape = "list"
    THEN LET c == ReplyCall(<<conversation>>, [stop_event |-> stop_event])
         IN  [res |-> Return(ModelReply(c)), calls |-> <<c>>]
    ELSE IF conversation.shape = "dict"
    THEN IF "stop_event" \in DOMAIN conversation.entries
         THEN [res |-> Raise("TypeError"), calls |-> <<>>]
         ELSE LET c == ReplyCall(<<>>, MergeDicts(conversation.entries,
                                        [stop_event |-> stop_event]))
              IN  [res |-> Return(ModelReply(c)), calls |-> <<c>>]
    ELSE [res |-> Raise("RuntimeError"), calls |-> <<>>]

ReplyIdle ==
    /\ rp_pc = "idle"
    /\ conversations = <<>>
    /\ item_result = <<>>
    /\ reply_calls = <<>>
    /\ pool_invoked = FALSE
    /\ finish_order = <<>>
    /\ rp_result = NoResult

ReplyInit ==
    /\ rp_pc = "ready"
    /\ conversations \in
          UNION {[1..n -> ConversationValues] : n \in 0..MaxConversations}
    /\ item_result = <<>>
    /\ reply_calls = <<>>
    /\ pool_invoked = FALSE
    /\ finish_order = <<>>
    /\ rp_result = NoResult

\* lines 128-145: empty input returns at once, else the pool is started
Call_compute_model_replies ==
    /\ UNCHANGED <<cacheVars, switchVars, factoryVars>>
    /\ rp_pc = "ready"
    /\ IF Len(conversations) = 0
       THEN /\ rp_pc' = "returned"
            /\ rp_result' = Return(<<>>)
            /\ UNCHANGED <<item_result, reply_calls, pool_invoked>>
       ELSE /\ rp_pc' = "pool"
            /\ pool_invoked' = TRUE
            /\ item_result' = [i \in 1..Len(conversations) |-> NoResult]
            /\ reply_calls' = [i \in 1..Len(conversations) |-> <<>>]
            /\ UNCHANGED rp_result
    /\ UNCHANGED <<conversations, finish_order>>

\* process_with_thread_pool: a worker runs process_fn on an item not yet done
PoolProcessItem(i) ==
    /\ UNCHANGED <<cacheVars, switchVars, factoryVars>>
    /\ rp_pc = "pool"
    /\ item_result[i] = NoResult
    /\ LET out == compute_reply(conversations[i], StopEvent)
       IN  /\ item_result' = [item_result EXCEPT ![i] = out.res]
           /\ reply_calls' = [reply_calls EXCEPT ![i] = @ \o out.calls]
    /\ finish_order' = Append(finish_order, i)
    /\ UNCHANGED <<rp_pc, conversations, pool_invoked, rp_result>>

\* process_with_thread_pool: every item is done; the results are handed back
\* in item order, or the exception of a failed item is raised
PoolFinish ==
    /\ UNCHANGED <<cacheVars, switchVars, factoryVars>>
    /\ rp_pc = "pool"
    /\ \A i \in 1..Len(conversations) : item_result[i] # NoResult
    /\ LET failed == {i \in 1..Len(conversations) :
                         item_result[i].kind = "raise"}
       IN  IF failed = {}
           THEN /\ rp_pc' = "returned"
                /\ rp_result' = Return([i \in 1..Len(conversations) |->
                                           item_result[i].value])
           ELSE /\ rp_pc' = "raised"
                /\ \E i \in failed : rp_result' = item_result[i]
    /\ UNCHANGED <<conversations, item_result, reply_calls, pool_invoked,
                   finish_order>>

(***************************************************************************)
(* Specifications.                                                         *)
(***************************************************************************)
\* SpecFetch: NumThreads threads call fetch_model_config concurrently
InitFetch ==
    /\ CacheInit
    /\ tgi_installed = FALSE
    /\ SwitchIdle
    /\ FactoryIdle
    /\ ReplyIdle

NextFetch ==
    \E t \in Threads :
        \/ \E name \in FetchNames : Call_fetch_model_config(t, name)
        \/ fetch_model_config(t)

SpecFetch == InitFetch /\ [][NextFetch]_vars

\* SpecSelector: one thread asks the backend selector about model names
InitSelector ==
    /\ CacheInit
    /\ SwitchIdle
    /\ FactoryIdle
    /\ ReplyIdle

NextSelector ==
    \/ \E name \in SelectorNames :
          \/ Call_get_supported_inference_backends(MainThread, name)
          \/ Call_get_inference_backend(MainThread, name)
    \/ fetch_model_config(MainThread)

SpecSelector == InitSelector /\ [][NextSelector]_vars

\* SpecSwitch: backends get loaded, and the switcher is called
InitSwitch ==
    /\ CacheInit
    /\ tgi_installed = FALSE
    /\ SwitchIdle
    /\ FactoryIdle
    /\ ReplyIdle

NextSwitch ==
    \/ \E b \in KnownBackends : LoadBackend(b)
    \/ \E target \in SwitchTargets : Call_switch_inference_backend(target)
    \/ Call_unload_model
    \/ SwitchLoopStep

SpecSwitch == InitSwitch /\ [][NextSwitch]_vars

\* SpecFactory: create_model on every combination of its arguments
InitFactory ==
    /\ CacheInit
    /\ tgi_installed = FALSE
    /\ SwitchIdle
    /\ FactoryInit
    /\ ReplyIdle

NextFactory == Call_create_model

SpecFactory == InitFactory /\ [][NextFactory]_vars

\* SpecReplies: compute_model_replies on every list of up to
\* MaxConversations conversations, the workers finishing in any order
InitReplies ==
    /\ CacheInit
    /\ tgi_installed = FALSE
    /\ SwitchIdle
    /\ FactoryIdle
    /\ ReplyInit

NextReplies ==
    \/ Call_compute_model_replies
    \/ \E i \in 1..Len(conversations) : PoolProcessItem(i)
    \/ PoolFinish

SpecReplies == InitReplies /\ [][NextReplies]_vars

(***************************************************************************)
(* Claims about the config cache, checked under SpecFetch.                 *)
(***************************************************************************)
InCriticalSection(t) ==
    pc[t] \in {"L13", "L15", "L20", "L20_fetching", "L23", "L25"}

Finished(t, fn) == pc[t] = "done" /\ call[t] = fn

C1_State ==
    /\ \A n \in ModelNames : fetch_calls[n] <= 1
    /\ \A t \in Threads :
          (Finished(t, "fetch_model_config") /\ result[t].kind = "return")
          => /\ model_name[t] \in DOMAIN fetched_model_configs
             /\ result[t].value = fetched_model_configs[model_name[t]]

C1_Step ==
    \A n \in DOMAIN fetched_model_configs :
        /\ n \in DOMAIN fetched_model_configs'
        /\ fetched_model_configs'[n] = fetched_model_configs[n]

\* C1: the underlying fetch is performed at most once per name, every call
\* that returns hands back the object the cache holds for its name, and an
\* entry of the cache is never replaced or removed once stored.
C1_FetchedOnceSameObject == []C1_State /\ [][C1_Step]_vars

\* two calls for one name have both returned, one of them from the cache
C1_Witness ==
    \E t1, t2 \in Threads :
        /\ t1 # t2
        /\ Finished(t1, "fetch_model_config")
        /\ Finished(t2, "fetch_model_config")
        /\ model_name[t1] = model_name[t2]
        /\ result[t1].kind = "return"
        /\ result[t2].kind = "return"
        /\ result[t1].value = result[t2].value
        /\ fetch_calls[model_name[t1]] = 1

\* C2: at most one thread is between the acquire and the release of
\* fetch_model_config, whatever names the threads ask for.
C2_MutualExclusion ==
    Cardinality({t \in Threads : InCriticalSection(t)}) <= 1

\* a thread waits for the lock while the fetch of another name is running
C2_Witness ==
    \E t1, t2 \in Threads :
        /\ pc[t1] = "L20_fetching"
        /\ pc[t2] = "L11"
        /\ model_name[t1] # model_name[t2]

C3_State ==
    \A t \in Threads :
        (pc[t] = "done" /\ fetch_raised[t] # "none")
        => result[t] = Raise(fetch_raised[t])

C3_Step ==
    \A t \in Threads :
        (fetch_raised[t] = "none" /\ fetch_raised'[t] # "none")
        => /\ fetched_model_configs' = fetched_model_configs
           /\ model_name[t] \notin DOMAIN fetched_model_configs'

\* C3: when the underlying fetch raises, the caller gets that same exception,
\* and the failing step leaves the cache as it was, with no entry for the name.
C3_FailurePropagatesCacheUnchanged == []C3_State /\ [][C3_Step]_vars

\* a fetch failed while the cache already held the config of another name
C3_Witness ==
    \E t \in Threads :
        /\ pc[t] = "done"
        /\ fetch_raised[t] # "none"
        /\ result[t].kind = "raise"
        /\ fetched_model_configs # <<>>

\* C10: the lock is held only while some call of fetch_model_config is
\* running: when every call has finished (returned or raised) it is free.
C10_LockFreeWhenNoCallRuns ==
    (\A t \in Threads : pc[t] \in {"idle", "done"})
    => fetched_model_configs_lock = FALSE

(***************************************************************************)
(* Claims about the backend selector, checked under SpecSelector.          *)
(***************************************************************************)
C4_Case(t) ==
    LET has(b) == InList(b, supported_backends[t])
        r == result[t]
    IN  /\ has("vllm") => r = Return("vllm")
        /\ (~has("vllm") /\ has("tgi") /\ tgi_installed) => r = Return("tgi")
        /\ (~has("vllm") /\ has("tgi") /\ ~tgi_installed
               /\ has("hf_transformers"))
           => (r = Return("hf_transformers") /\ warned[t])
        /\ (~has("vllm") /\ ~has("tgi")) => r = Raise("Exception")
        /\ (~has("vllm") /\ has("tgi") /\ ~tgi_installed
               /\ ~has("hf_transformers"))
           => r = Raise("Exception")
        /\ r.kind = "return" => has(r.value)

\* C4: get_inference_backend returns vllm when supported, else tgi when
\* supported and installed, else (tgi supported, not installed) warns and
\* returns hf_transformers when supported, else raises; what it returns is
\* in the supported list.
C4_BackendPriority ==
    \A t \in Threads :
        (Finished(t, "get_inference_backend") /\ fetch_raised[t] = "none")
        => C4_Case(t)

\* TGI is supported but not installed: warning, then hf_transformers
C4_Witness ==
    /\ Finished(MainThread, "get_inference_backend")
    /\ supported_backends[MainThread] = <<"tgi", "hf_transformers">>
    /\ ~tgi_installed
    /\ warned[MainThread]
    /\ result[MainThread] = Return("hf_transformers")

StarchatNames == {N_starchat, N_starchat_beta}

AllowedModelTypes ==
    {"llama", "gpt_neox", "gpt_bigcode", "mpt", "RefinedWeb",
     "RefinedWebModel", "falcon"}

C5_State ==
    \A t \in Threads :
        Finished(t, "get_supported_inference_backends")
        => IF model_name[t] \in StarchatNames
           THEN result[t] = Return(<<"tgi", "hf_transformers">>)
           ELSE fetch_raised[t] = "none"
                => /\ model_name[t] \in DOMAIN fetched_model_configs
                   /\ result[t] = Return(
                        IF fetched_model_configs[model_name[t]].model_type
                              \in AllowedModelTypes
                        THEN <<"vllm", "tgi", "hf_transformers">>
                        ELSE <<>>)

C5_Step ==
    \A t \in Threads :
        (/\ pc[t] \in {"idle", "done"}
         /\ call'[t] = "get_supported_inference_backends"
         /\ model_name'[t] \in StarchatNames
         /\ <<pc[t], call[t], model_name[t]>>
               # <<pc'[t], call'[t], model_name'[t]>>)
        => /\ pc'[t] = "done"
           /\ fetched_model_configs' = fetched_model_configs
           /\ fetch_calls' = fetch_calls
           /\ fetched_model_configs_lock' = fetched_model_configs_lock

\* C5: get_supported_inference_backends returns [tgi, hf_transformers] for
\* a name containing starchat, in one step that touches neither the cache, the
\* lock nor the registry; for another name it returns the three backends when
\* the cached config's model_type is in the allow-list and [] when it is not.
C5_SupportedBackends == []C5_State /\ [][C5_Step]_vars

\* a name that only contains starchat is answered with nothing fetched for it
C5_Witness ==
    /\ Finished(MainThread, "get_supported_inference_backends")
    /\ model_name[MainThread] = N_starchat_beta
    /\ result[MainThread] = Return(<<"tgi", "hf_transformers">>)
    /\ fetch_calls[N_starchat_beta] = 0
    /\ fetched_model_configs # <<>>

(***************************************************************************)
(* Claims about the backend switcher, checked under SpecSwitch.            *)
(***************************************************************************)
FourBackends == {"hf_transformers", "vllm", "tgi", "fastchat"}

\* C6: when switch_inference_backend(target) has returned, every known
\* backend but the target was unloaded exactly once and is not loaded, the
\* target was never unloaded and is loaded exactly if it was at the call;
\* unload_model() and an unknown target unload all four. No unload function
\* is ever called twice in one call.
C6_SwitchUnloadsAllButTarget ==
    /\ \A b \in FourBackends : unload_calls[b] <= 1
    /\ sw_pc = "done"
       => /\ \A b \in FourBackends :
                IF b = new_inference_backend
                THEN unload_calls[b] = 0 /\ loaded[b] = loaded_at_call[b]
                ELSE unload_calls[b] = 1 /\ ~loaded[b]
          /\ (sw_entry = "unload_model"
                 \/ new_inference_backend \notin FourBackends)
             => \A b \in FourBackends : unload_calls[b] = 1 /\ ~loaded[b]

\* all four were loaded, the switch to tgi leaves tgi alone
C6_Witness ==
    /\ sw_pc = "done"
    /\ sw_entry = "switch_inference_backend"
    /\ new_inference_backend = "tgi"
    /\ \A b \in FourBackends : loaded_at_call[b]
    /\ loaded["tgi"]
    /\ ~loaded["hf_transformers"] /\ ~loaded["vllm"] /\ ~loaded["fastchat"]

(***************************************************************************)
(* Claims about the reply driver, checked under SpecReplies.               *)
(***************************************************************************)
Items == 1..Len(conversations)

ListsAndDicts ==
    /\ Len(conversations) > 0
    /\ \A i \in Items : conversations[i].shape \in {"list", "dict"}

HasStopEventKey(c) == c.shape = "dict" /\ "stop_event" \in DOMAIN c.entries

\* the call the claim expects for a conversation
ExpectedCall(c) ==
    IF c.shape = "list"
    THEN [positional |-> <<c>>, keywords |-> [stop_event |-> StopEvent]]
    ELSE [positional |-> <<>>,
          keywords |-> [k \in (DOMAIN c.entries) \cup {"stop_event"} |->
                           IF k = "stop_event" THEN StopEvent
                           ELSE c.entries[k]]]

RepliesInOrder ==
    /\ rp_pc = "returned"
    /\ \A i \in Items : reply_calls[i] = <<ExpectedCall(conversations[i])>>
    /\ rp_result =
          Return([i \in Items |-> ModelReply(ExpectedCall(conversations[i]))])

\* C7 as stated: for every non-empty list of lists and dicts, model.reply is
\* called once per conversation, in the form of its shape and with the stop
\* event, and the result holds the replies in input order.
C7_Original ==
    (rp_pc \in {"returned", "raised"} /\ ListsAndDicts) => RepliesInOrder

\* C7, amended: the same, provided no dict has a key named stop_event; a
\* dict that has one makes its item fail with TypeError, model.reply not
\* called. No item has model.reply called twice.
C7_RepliesInOrder ==
    /\ \A i \in DOMAIN reply_calls : Len(reply_calls[i]) <= 1
    /\ (/\ rp_pc \in {"returned", "raised"}
        /\ ListsAndDicts
        /\ \A i \in Items : ~HasStopEventKey(conversations[i]))
       => RepliesInOrder
    /\ \A i \in DOMAIN item_result :
          (HasStopEventKey(conversations[i]) /\ item_result[i] # NoResult)
          => (item_result[i] = Raise("TypeError") /\ reply_calls[i] = <<>>)

\* a list and a dict, the dict's reply finished first
C7_Witness ==
    /\ rp_pc = "returned"
    /\ Len(conversations) >= 2
    /\ conversations[1].shape = "list"
    /\ conversations[2].shape = "dict"
    /\ finish_order[1] = 2
    /\ rp_result.value[1] = ModelReply(ExpectedCall(conversations[1]))

\* C8: an item that is neither a list nor a dict never has model.reply
\* called, and once processed its computation has failed with an error.
C8_OtherShapeRaises ==
    \A i \in DOMAIN item_result :
        conversations[i].shape \notin {"list", "dict"}
        => /\ reply_calls[i] = <<>>
           /\ item_result[i] # NoResult => item_result[i].kind = "raise"

\* a tuple has failed beside a list that was answered
C8_Witness ==
    \E i, j \in DOMAIN item_result :
        /\ conversations[i].shape = "tuple"
        /\ item_result[i].kind = "raise"
        /\ conversations[j].shape = "list"
        /\ item_result[j].kind = "return"

(***************************************************************************)
(* Claims about the model factory, checked under SpecFactory.              *)
(***************************************************************************)
TableKeys ==
    {"debug", "openai", "fastchat", "open-assistant", "guanaco",
     "falcon-instruct", "alpaca-without-prefix", "alpaca-with-prefix",
     "chatml", "starchat", "llama2-chat", "stable-beluga", "dolphin",
     "openchat-llama2-v1", "wizard-lm"}

SharedKeywords == (DOMAIN cm_model_args) \cap (DOMAIN cm_kwargs)

UnknownTypeRaises ==
    cm_model_type \notin TableKeys
    => (cm_result = Raise("Exception") /\ constructed = <<>>)

ConstructsMappedClass ==
    LET inv == [class |-> model_classes[cm_model_type],
                positional |-> <<cm_model_name>>,
                keywords |-> [k \in (DOMAIN cm_model_args)
                                       \cup (DOMAIN cm_kwargs) |->
                                 IF k \in DOMAIN cm_model_args
                                 THEN cm_model_args[k] ELSE cm_kwargs[k]]]
    IN  /\ constructed = <<inv>>
        /\ cm_result = Return(inv)
        /\ cm_model_type = "chatml" => inv.class = "ChatML"
        /\ cm_model_type = "dolphin" => inv.class = "Dolphin"

\* C9 as stated: an unknown type raises and constructs nothing; every key of
\* the table constructs and returns the class mapped to it, with name first
\* and args and kwargs as keywords.
C9_Original ==
    cm_pc = "done"
    => /\ UnknownTypeRaises
       /\ cm_model_type \in TableKeys => ConstructsMappedClass

\* C9, amended: for a key of the table the class is constructed provided
\* args and kwargs have no key in common; when they have one, the call
\* raises TypeError and constructs nothing.
C9_CreateModel ==
    cm_pc = "done"
    => /\ UnknownTypeRaises
       /\ (cm_model_type \in TableKeys /\ SharedKeywords = {})
          => ConstructsMappedClass
       /\ (cm_model_type \in TableKeys /\ SharedKeywords # {})
          => (cm_result = Raise("TypeError") /\ constructed = <<>>)

\* dolphin is constructed with keywords from both dicts
C9_Witness ==
    /\ cm_pc = "done"
    /\ cm_model_type = "dolphin"
    /\ cm_model_args = [tokenizer |-> "tk"]
    /\ cm_kwargs = [max_new_tokens |-> "512"]
    /\ cm_result.kind = "return"
    /\ cm_result.value.class = "Dolphin"
    /\ Len(constructed) = 1

====
